---------------------------- MODULE Spec2Model ----------------------------
(***************************************************************************)
(* Model of the IMAP attachment-listing script: main.py (the orchestrator),*)
(* connect_to_imap_server.py (session manager) and search_emails.py (date  *)
(* validation, search, header decoding, attachment scan).                  *)
(*                                                                         *)
(* Strings are sequences of one-character strings, byte strings are        *)
(* sequences of byte values, so that parsing, formatting, suffix tests and *)
(* decoding are computed and not assumed.  The IMAP server and the library *)
(* calls whose result the script cannot determine are the environment: the *)
(* actions choose their responses with \E.                                 *)
(***************************************************************************)
EXTENDS Integers, Sequences, FiniteSets, TLC

VARIABLES
    pc,                \* position of the control flow
    imap_session,      \* main's local imap_session: None or the session handle
    ops,               \* method calls made on the IMAP session, with their responses
    log,               \* log records written so far
    start_date,        \* START_DATE / search_emails' start_date argument
    end_date,          \* END_DATE / search_emails' end_date argument
    file_extension,    \* FILE_EXTENSION / get_attachments_info's file_extension
    email_ids,         \* identifiers returned by search_emails / given to the scan
    idx,               \* index (1-based) of the next identifier of the for loop
    attachments_info,  \* the list get_attachments_info builds
    exc,               \* the exception in flight or last raised (NoExc if none)
    text,              \* decode_text's argument
    decoded            \* decode_text's outcome: [kind, val]

vars == <<pc, imap_session, ops, log, start_date, end_date, file_extension,
          email_ids, idx, attachments_info, exc, text, decoded>>

\* Python's None, and the IMAP4_SSL object of a run; both are one-element
\* tuples, so that they compare with the strings (sequences of characters)
None == <<"None">>
Session == <<"IMAP4_SSL">>

\* an exception: its class and what its message says
Exc(type, msg) == [type |-> type, msg |-> msg]
NoExc == Exc("none", "")

----------------------------------------------------------------------------
(* Characters and strings *)

UpperLetters == <<"A","B","C","D","E","F","G","H","I","J","K","L","M",
                  "N","O","P","Q","R","S","T","U","V","W","X","Y","Z">>

LowerLetters == <<"a","b","c","d","e","f","g","h","i","j","k","l","m",
                  "n","o","p","q","r","s","t","u","v","w","x","y","z">>

\* str.lower() on one character
LowerChar(c) ==
    IF \E k \in 1..26 : UpperLetters[k] = c
    THEN LowerLetters[CHOOSE k \in 1..26 : UpperLetters[k] = c]
    ELSE c

\* str.lower()
Lower(s) == [k \in 1..Len(s) |-> LowerChar(s[k])]

\* str.endswith(suffix)
EndsWith(s, suffix) ==
    /\ Len(s) >= Len(suffix)
    /\ SubSeq(s, Len(s) - Len(suffix) + 1, Len(s)) = suffix

\* value of a sequence of decimal digits (int() of a matched \d+ group)
RECURSIVE DigitsValue(_)
DigitsValue(ds) ==
    IF ds = <<>> THEN 0
    ELSE 10 * DigitsValue(SubSeq(ds, 1, Len(ds) - 1)) + ds[Len(ds)]

IsDigits(f) == \A k \in 1..Len(f) : f[k] \in 0..9

----------------------------------------------------------------------------
(* datetime: the proleptic Gregorian calendar of Python's datetime module *)

MINYEAR == 1
MAXYEAR == 9999
\* date.max.toordinal()
MAXORDINAL == 3652059

DaysInMonthTable == <<31, 28, 31, 30, 31, 30, 31, 31, 30, 31, 30, 31>>
DaysBeforeMonthTable == <<0, 31, 59, 90, 120, 151, 181, 212, 243, 273, 304, 334>>

is_leap(year) == year % 4 = 0 /\ (year % 100 # 0 \/ year % 400 = 0)

days_in_month(year, month) ==
    IF month = 2 /\ is_leap(year) THEN 29 ELSE DaysInMonthTable[month]

days_before_year(year) ==
    LET y == year - 1 IN y * 365 + (y \div 4) - (y \div 100) + (y \div 400)

days_before_month(year, month) ==
    DaysBeforeMonthTable[month] + (IF month > 2 /\ is_leap(year) THEN 1 ELSE 0)

\* datetime.toordinal()
ymd2ord(dt) ==
    days_before_year(dt.year) + days_before_month(dt.year, dt.month) + dt.day

\* date.fromordinal(): the 400/100/4/1-year cycle decomposition
ord2ymd(ordinal) ==
    LET n0   == ordinal - 1
        n400 == n0 \div 146097
        r400 == n0 % 146097
        n100 == r400 \div 36524
        r100 == r400 % 36524
        n4   == r100 \div 1461
        r4   == r100 % 1461
        n1   == r4 \div 365
        r1   == r4 % 365
        year == n400 * 400 + 1 + n100 * 100 + n4 * 4 + n1
    IN  IF n1 = 4 \/ n100 = 4
        THEN [year |-> year - 1, month |-> 12, day |-> 31]
        ELSE LET month == CHOOSE m \in 1..12 :
                              /\ days_before_month(year, m) <= r1
                              /\ r1 < days_before_month(year, m)
                                      + days_in_month(year, m)
             IN [year |-> year, month |-> month,
                 day |-> r1 - days_before_month(year, month) + 1]

\* start > end in the place of start >= end
datetime_gt(a, b) ==
    \/ a.year > b.year
    \/ a.year = b.year /\ a.month > b.month
    \/ a.year = b.year /\ a.month = b.month /\ a.day > b.day

\* datetime.__ge__: comparison of the (year, month, day) tuples
datetime_ge(a, b) ==
    \/ a.year > b.year
    \/ a.year = b.year /\ a.month > b.month
    \/ a.year = b.year /\ a.month = b.month /\ a.day >= b.day

\* datetime + timedelta(days=n): OverflowError outside 1..MAXORDINAL
datetime_add_days(dt, n) ==
    LET o == ymd2ord(dt) + n
    IN  IF 0 < o /\ o <= MAXORDINAL
        THEN [kind |-> "ok", val |-> ord2ymd(o)]
        ELSE [kind |-> "raise",
              val |-> Exc("OverflowError", "date value out of range")]

----------------------------------------------------------------------------
(* strptime / strftime with DATE_FORMAT = "%d-%b-%Y".  A date string is    *)
(* the record of its three "-"-separated fields: d and y sequences of      *)
(* digits, b a sequence of characters.                                     *)

MonthAbbr == << <<"j","a","n">>, <<"f","e","b">>, <<"m","a","r">>,
                <<"a","p","r">>, <<"m","a","y">>, <<"j","u","n">>,
                <<"j","u","l">>, <<"a","u","g">>, <<"s","e","p">>,
                <<"o","c","t">>, <<"n","o","v">>, <<"d","e","c">> >>

MonthTitle == << <<"J","a","n">>, <<"F","e","b">>, <<"M","a","r">>,
                 <<"A","p","r">>, <<"M","a","y">>, <<"J","u","n">>,
                 <<"J","u","l">>, <<"A","u","g">>, <<"S","e","p">>,
                 <<"O","c","t">>, <<"N","o","v">>, <<"D","e","c">> >>

DateStr(d, b, y) == [d |-> d, b |-> b, y |-> y]

\* %d: 3[0-1]|[1-2]\d|0[1-9]|[1-9]
MatchesDay(f) ==
    /\ IsDigits(f)
    /\ Len(f) \in {1, 2}
    /\ DigitsValue(f) \in 1..31

\* %b: a month abbreviation in any letter case
MatchesMonth(f) == \E m \in 1..12 : MonthAbbr[m] = Lower(f)

\* %Y: \d\d\d\d
MatchesYear(f) == IsDigits(f) /\ Len(f) = 4

\* datetime.strptime(date_string, DATE_FORMAT)
strptime(s) ==
    IF ~(MatchesDay(s.d) /\ MatchesMonth(s.b) /\ MatchesYear(s.y))
    THEN [kind |-> "raise",
          val |-> Exc("ValueError", "time data does not match format")]
    ELSE LET day   == DigitsValue(s.d)
             month == CHOOSE m \in 1..12 : MonthAbbr[m] = Lower(s.b)
             year  == DigitsValue(s.y)
         IN  IF year < MINYEAR \/ year > MAXYEAR
                \/ day > days_in_month(year, month)
             THEN [kind |-> "raise", val |-> Exc("ValueError", "out of range")]
             ELSE [kind |-> "ok",
                   val |-> [year |-> year, month |-> month, day |-> day]]

\* the decimal digits of n >= 0
RECURSIVE Digits(_)
Digits(n) == IF n < 10 THEN <<n>> ELSE Append(Digits(n \div 10), n % 10)

\* datetime.strftime(DATE_FORMAT): %d zero-padded to two digits, %b the
\* title-case abbreviation, %Y the year's digits
strftime(dt) ==
    DateStr(IF dt.day < 10 THEN <<0, dt.day>> ELSE Digits(dt.day),
            MonthTitle[dt.month],
            Digits(dt.year))


----------------------------------------------------------------------------
(* validate_date_range and the query search_emails builds *)

\* validate_date_range(start_date, end_date, DATE_FORMAT): "ok" (returns
\* None) or the exception it raises
validate_date_range(sd, ed) ==
    LET start == strptime(sd)
        end   == strptime(ed)
    IN  IF start.kind = "raise" THEN start
        ELSE IF end.kind = "raise" THEN end
        ELSE IF datetime_ge(start.val, end.val)
             THEN [kind |-> "raise",
                   val |-> Exc("ValueError",
                               "start_date must be before end_date")]
             ELSE [kind |-> "ok", val |-> None]

\* since_date of search_emails
since_date(sd) == strftime(strptime(sd).val)

\* the end date itself, not the day after
before_date_raw(ed) == [kind |-> "ok", val |-> strftime(strptime(ed).val)]

\* before_date of search_emails: "ok" with the formatted date, or the
\* OverflowError of the addition
before_date(ed) ==
    LET sum == datetime_add_days(strptime(ed).val, 1)
    IN  IF sum.kind = "raise" THEN sum
        ELSE [kind |-> "ok", val |-> strftime(sum.val)]

----------------------------------------------------------------------------
(* decode_text.  Its argument is [kind |-> "none"], [kind |-> "str", val]  *)
(* or [kind |-> "bytes", val]; in SpecDecode a str is a sequence of code   *)
(* points and bytes a sequence of byte values.                             *)

REPLACEMENT == 65533

IsContinuation(b) == b \in 128..191
IsLead2(b) == b \in 194..223

\* bytes.decode('utf-8', errors='replace') for byte strings of ASCII
\* bytes, two-byte sequences and bytes that start no sequence
RECURSIVE Utf8DecodeReplace(_)
Utf8DecodeReplace(bs) ==
    IF bs = <<>> THEN <<>>
    ELSE IF bs[1] < 128
         THEN <<bs[1]>> \o Utf8DecodeReplace(Tail(bs))
    ELSE IF IsLead2(bs[1]) /\ Len(bs) >= 2 /\ IsContinuation(bs[2])
         THEN <<(bs[1] - 192) * 64 + (bs[2] - 128)>>
                  \o Utf8DecodeReplace(Tail(Tail(bs)))
    ELSE <<REPLACEMENT>> \o Utf8DecodeReplace(Tail(bs))

\* email.header.decode_header applied to a bytes object: its str regular
\* expression refuses a bytes subject (TypeError)
decode_header_bytes(bs) ==
    [kind |-> "raise", val |-> Exc("TypeError", "string pattern on bytes")]

\* the fallback with errors='strict': undecodable bytes raise
decode_text_strict(t) ==
    IF t.kind = "none" THEN [kind |-> "return", val |-> <<>>]
    ELSE IF t.kind = "bytes"
         THEN IF \E k \in 1..Len(Utf8DecodeReplace(t.val)) :
                     Utf8DecodeReplace(t.val)[k] = REPLACEMENT
              THEN [kind |-> "raise",
                    val |-> Exc("UnicodeDecodeError", "invalid start byte")]
              ELSE [kind |-> "return", val |-> Utf8DecodeReplace(t.val)]
    ELSE [kind |-> "return", val |-> t.val]

\* decode_text(text, default_charset='utf-8'): [kind |-> "return", val]
decode_text(t) ==
    IF t.kind = "none" THEN [kind |-> "return", val |-> <<>>]
    ELSE IF t.kind = "bytes"
         THEN LET h == decode_header_bytes(t.val)
              IN  IF h.kind = "raise"
                  THEN [kind |-> "return", val |-> Utf8DecodeReplace(t.val)]
                  ELSE [kind |-> "return", val |-> h.val]
    ELSE [kind |-> "return", val |-> t.val]

\* the log records decode_text writes
decode_text_log(t) ==
    IF t.kind = "none"
    THEN <<[level |-> "WARNING", msg |-> "decode_text received None"]>>
    ELSE IF t.kind = "bytes" /\ decode_header_bytes(t.val).kind = "raise"
         THEN <<[level |-> "ERROR", msg |-> "Error decoding text"]>>
    ELSE <<>>

\* an Optional[str] as decode_text's argument
AsText(v) == IF v = None THEN [kind |-> "none"] ELSE [kind |-> "str", val |-> v]


----------------------------------------------------------------------------
(* Messages: email.message.Message objects as message_from_bytes returns   *)
(* them.  A part is [maintype, disposition, filename, payload]: payload is *)
(* the sequence of subparts of a multipart container, <<>> otherwise.  A   *)
(* header (subject, from_) and a filename are a str or None.               *)

Part(maintype, disposition, filename, payload) ==
    [maintype |-> maintype, disposition |-> disposition,
     filename |-> filename, payload |-> payload]

Message(subject, from_, root) ==
    [subject |-> subject, from_ |-> from_, root |-> root]

\* Message.walk(): the part, then the walk of each subpart, depth first
RECURSIVE WalkAll(_)
walk(part) == <<part>> \o WalkAll(part.payload)
WalkAll(parts) ==
    IF parts = <<>> THEN <<>>
    ELSE walk(Head(parts)) \o WalkAll(Tail(parts))

\* the test without the Content-Disposition condition
part_records_any_disposition(part, subject, from_, ext) ==
    IF part.maintype = "multipart"
    THEN <<>>
    ELSE LET file_name == decode_text(AsText(part.filename)).val
         IN  IF file_name # <<>> /\ EndsWith(file_name, ext)
             THEN << <<subject, from_, file_name>> >>
             ELSE <<>>

\* the test of one part in get_attachments_info's inner loop: the records
\* the part appends
part_records(part, subject, from_, ext) ==
    IF part.maintype = "multipart" \/ part.disposition = None
    THEN <<>>
    ELSE LET file_name == decode_text(AsText(part.filename)).val
         IN  IF file_name # <<>> /\ EndsWith(file_name, ext)
             THEN << <<subject, from_, file_name>> >>
             ELSE <<>>

\* the inner for loop over email_message.walk()
RECURSIVE scan_parts(_, _, _, _)
scan_parts(parts, subject, from_, ext) ==
    IF parts = <<>> THEN <<>>
    ELSE part_records(Head(parts), subject, from_, ext)
             \o scan_parts(Tail(parts), subject, from_, ext)

\* the body of get_attachments_info's loop for one fetched message
message_records(msg, ext) ==
    LET subject == decode_text(AsText(msg.subject)).val
        from_   == decode_text(AsText(msg.from_)).val
    IN  scan_parts(walk(msg.root), subject, from_, ext)

----------------------------------------------------------------------------
(* The values the environment and the configuration are drawn from *)

PdfExt == <<".","p","d","f">>
DocxExt == <<".","d","o","c","x">>
Extensions == {PdfExt, DocxExt}

InvoicePdf == <<"i",".","p","d","f">>
ReportPdf == <<"r",".","p","d","f">>
UpperPdf == <<"u",".","P","D","F">>
NoDotPdf == <<"p","d","f">>
PdfBak == <<"b",".","p","d","f",".","b","a","k">>
LetterDocx == <<"l",".","d","o","c","x">>
LogoPng == <<"g",".","p","n","g">>

TextBody == Part("text", None, None, <<>>)
Attachment == <<"attachment">>
Inline == <<"inline">>
Attached(filename) == Part("application", Attachment, filename, <<>>)

\* one attachment "invoice.pdf"
MsgInvoice ==
    Message(<<"S","1">>, <<"a","@","x">>,
            Part("multipart", None, None, <<TextBody, Attached(InvoicePdf)>>))

\* no attachment at all
MsgPlain == Message(<<"S","2">>, <<"b","@","x">>, TextBody)

\* nested containers, several attachments, names that must not match, no
\* Subject header
MsgNested ==
    Message(None, <<"c","@","x">>,
            Part("multipart", None, None,
                 << Part("multipart", None, None,
                         <<TextBody, Part("image", Inline, LogoPng, <<>>)>>),
                    Attached(ReportPdf),
                    Attached(UpperPdf),
                    Attached(LetterDocx),
                    Attached(InvoicePdf) >>))

\* a container that itself carries a disposition and a .pdf name, a named
\* part without Content-Disposition, a part with a disposition and no name
MsgOdd ==
    Message(<<"S","4">>, None,
            Part("multipart", Attachment, InvoicePdf,
                 << Part("application", None, ReportPdf, <<>>),
                    Attached(None),
                    Attached(NoDotPdf),
                    Attached(PdfBak) >>))

Messages == {MsgInvoice, MsgPlain, MsgNested, MsgOdd}

\* bound on the number of identifiers a search returns in a run of main
MaxIds == 2
\* bound on the length of the identifier list given to get_attachments_info
MaxScanIds == 3

\* the lists of at most n distinct identifiers out of 1..n
IdLists(n) ==
    {ids \in UNION {[1..k -> 1..n] : k \in 0..n} :
        \A a, b \in 1..Len(ids) : a # b => ids[a] # ids[b]}

D(a, b) == <<a, b>>
Y(a, b, c, d) == <<a, b, c, d>>

\* START_DATE = "01-Mar-2024" and END_DATE = "04-Mar-2024"
START_DATE == DateStr(D(0,1), <<"M","a","r">>, Y(2,0,2,4))
END_DATE == DateStr(D(0,4), <<"M","a","r">>, Y(2,0,2,4))

\* date strings a run of main is configured with
ConfigDates ==
    { START_DATE, END_DATE,
      DateStr(D(3,1), <<"D","e","c">>, Y(9,9,9,9)),
      DateStr(Y(2,0,2,4), <<"0","3">>, D(0,4)) }          \* "2024-03-04"

\* date strings search_emails and validate_date_range are called with
DateStrings ==
    ConfigDates \cup
    { DateStr(<<1>>, <<"m","a","r">>, Y(2,0,2,4)),        \* "1-mar-2024"
      DateStr(D(2,8), <<"F","e","b">>, Y(2,0,2,3)),
      DateStr(D(2,9), <<"F","e","b">>, Y(2,0,2,3)),        \* no such day
      DateStr(D(2,8), <<"F","E","B">>, Y(2,0,2,4)),
      DateStr(D(2,9), <<"F","e","b">>, Y(2,0,2,4)),
      DateStr(D(3,0), <<"A","p","r">>, Y(2,0,2,4)),
      DateStr(D(3,1), <<"A","p","r">>, Y(2,0,2,4)),        \* no such day
      DateStr(D(3,1), <<"D","e","c">>, Y(2,0,2,3)),
      DateStr(D(0,1), <<"J","a","n">>, Y(2,0,2,4)),
      DateStr(D(3,2), <<"J","a","n">>, Y(2,0,2,4)),        \* day 32
      DateStr(D(0,0), <<"J","a","n">>, Y(2,0,2,4)),        \* day 00
      DateStr(D(0,1), <<"M","r","z">>, Y(2,0,2,4)),        \* no such month
      DateStr(D(0,1), <<"M","a","r">>, D(2,4)),            \* two-digit year
      DateStr(D(0,1), <<"J","a","n">>, Y(0,0,0,0)),        \* year 0
      DateStr(D(2,8), <<"F","e","b">>, Y(1,9,0,0)),
      DateStr(D(3,0), <<"D","e","c">>, Y(9,9,9,9)) }


----------------------------------------------------------------------------
(* Helpers of the actions *)

Op(op, arg, typ, data) == [op |-> op, arg |-> arg, typ |-> typ, data |-> data]

Info(msg) == [level |-> "INFO", msg |-> msg]
Error(msg) == [level |-> "ERROR", msg |-> msg]

\* an exception leaves the function that runs: main's except clauses take
\* it, a function called on its own ends with it
Raise(e) == pc' = "except" /\ exc' = e

NoText == [kind |-> "none"]
NoResult == [kind |-> "not called", val |-> <<>>]

----------------------------------------------------------------------------
(* main, lines 32-37, with connect_to_imap_server *)

Connect ==
    /\ pc = "start"
    /\ UNCHANGED <<start_date, end_date, file_extension, email_ids, idx,
                   attachments_info, text, decoded>>
    /\ \/ \* IMAP4_SSL(server) raises imaplib.IMAP4.error: caught, None
          /\ imap_session' = None
          /\ ops' = ops
          /\ log' = log \o <<Error("IMAP login error")>>
          /\ pc' = "connected" /\ exc' = exc
       \/ \* IMAP4_SSL(server) raises another exception (OSError: no route,
          \* name resolution, TLS): not caught by connect_to_imap_server
          /\ imap_session' = None
          /\ ops' = ops
          /\ log' = log
          /\ Raise(Exc("OSError", "connection"))
       \/ \* login answers something else than 'OK'
          /\ imap_session' = None
          /\ ops' = Append(ops, Op("login", None, "NO", None))
          /\ log' = log \o <<Error("Not able to sign in!")>>
          /\ pc' = "connected" /\ exc' = exc
       \/ \* login raises imaplib.IMAP4.error: caught, None
          /\ imap_session' = None
          /\ ops' = Append(ops, Op("login", None, "raise", None))
          /\ log' = log \o <<Error("IMAP login error")>>
          /\ pc' = "connected" /\ exc' = exc
       \/ \* login raises another exception (OSError on the socket)
          /\ imap_session' = None
          /\ ops' = Append(ops, Op("login", None, "raise", None))
          /\ log' = log
          /\ Raise(Exc("OSError", "connection"))
       \/ \* login answers 'OK'
          /\ imap_session' = Session
          /\ ops' = Append(ops, Op("login", None, "OK", None))
          /\ log' = log \o <<Info("IMAP connection successful")>>
          /\ pc' = "connected" /\ exc' = exc

\* main, lines 35-40
MainCheckSession ==
    /\ pc = "connected"
    /\ IF imap_session = None
       THEN /\ log' = log \o <<Error("Failed to connect to IMAP server.")>>
            /\ pc' = "finally"
       ELSE /\ log' = log \o <<Info("Listing all available mailboxes:")>>
            /\ pc' = "list"
    /\ UNCHANGED <<imap_session, ops, start_date, end_date, file_extension,
                   email_ids, idx, attachments_info, exc, text, decoded>>

\* list_mailboxes
ListMailboxes ==
    /\ pc = "list"
    /\ UNCHANGED <<imap_session, start_date, end_date, file_extension,
                   email_ids, idx, attachments_info, text, decoded>>
    /\ \/ \* 'OK', every folder line splits on ' "/" ' (one more record is
          \* logged for each folder name; they are left out)
          /\ ops' = Append(ops, Op("list", None, "OK", None))
          /\ log' = log \o <<Info("Mailboxes available:")>>
          /\ pc' = "search_validate" /\ exc' = exc
       \/ \* 'OK', a folder line without ' "/" ': [1] raises IndexError
          /\ ops' = Append(ops, Op("list", None, "OK", None))
          /\ log' = log \o <<Info("Mailboxes available:")>>
          /\ Raise(Exc("IndexError", "list index out of range"))
       \/ \* not 'OK'
          /\ ops' = Append(ops, Op("list", None, "NO", None))
          /\ log' = log \o <<Error("Failed to list mailboxes.")>>
          /\ pc' = "search_validate" /\ exc' = exc
       \/ \* the call raises
          /\ ops' = Append(ops, Op("list", None, "raise", None))
          /\ log' = log
          /\ Raise(Exc("IMAP4.error", "command failed"))


----------------------------------------------------------------------------
(* search_emails *)

\* the validation's failure swallowed and turned into an empty result
SearchValidate_ReturnsEmpty ==
    /\ pc = "search_validate"
    /\ pc' = IF validate_date_range(start_date, end_date).kind = "raise"
             THEN "search_returned" ELSE "search_select"
    /\ UNCHANGED <<imap_session, ops, log, start_date, end_date,
                   file_extension, email_ids, idx, attachments_info, exc,
                   text, decoded>>

\* line 38: validate_date_range before anything else
SearchValidate ==
    /\ pc = "search_validate"
    /\ LET v == validate_date_range(start_date, end_date)
       IN  IF v.kind = "raise"
           THEN Raise(v.val)
           ELSE pc' = "search_select" /\ exc' = exc
    /\ UNCHANGED <<imap_session, ops, log, start_date, end_date,
                   file_extension, email_ids, idx, attachments_info, text,
                   decoded>>

\* line 39: imap_session.select(mailbox); the response is not looked at
SearchSelect ==
    /\ pc = "search_select"
    /\ UNCHANGED <<imap_session, log, start_date, end_date, file_extension,
                   email_ids, idx, attachments_info, text, decoded>>
    /\ \/ \E typ \in {"OK", "NO"} :
              /\ ops' = Append(ops, Op("select", <<"INBOX">>, typ, None))
              /\ pc' = "search_query" /\ exc' = exc
       \/ /\ ops' = Append(ops, Op("select", <<"INBOX">>, "raise", None))
          /\ Raise(Exc("IMAP4.error", "command failed"))

\* the search criterion of line 46
Query(since, before) == [since |-> since, before |-> before]

\* whether the session is in the SELECTED state: the last select said 'OK'
Selected ==
    \E k \in 1..Len(ops) :
        /\ ops[k].op = "select" /\ ops[k].typ = "OK"
        /\ \A j \in (k+1)..Len(ops) : ops[j].op # "select"

\* lines 47-54: what search_emails returns for the response (typ, data)
search_return(typ, data) == IF typ # "OK" THEN <<>> ELSE data

\* the log records of lines 47-50
search_log(typ) ==
    IF typ # "OK" THEN <<Error("Error searching Inbox.")>> ELSE <<>>

\* the responses of the server to a search: 'OK' with the identifiers that
\* match, or a refusal
SearchResponses ==
    {[typ |-> "OK", data |-> ids] : ids \in IdLists(MaxIds)}
        \cup {[typ |-> "NO", data |-> <<>>]}

\* lines 41-54
SearchQuery ==
    /\ pc = "search_query"
    /\ UNCHANGED <<imap_session, start_date, end_date, file_extension, idx,
                   attachments_info, text, decoded>>
    /\ LET before == before_date(end_date)
       IN  IF before.kind = "raise"
           THEN \* end_date + 1 day is past date.max
                /\ Raise(before.val)
                /\ UNCHANGED <<ops, log, email_ids>>
           ELSE LET q == Query(since_date(start_date), before.val)
                IN  \/ \* the server answers
                       /\ Selected
                       /\ \E r \in SearchResponses :
                             /\ ops' = Append(ops, Op("search", q, r.typ, r.data))
                             /\ email_ids' = search_return(r.typ, r.data)
                             /\ log' = log \o search_log(r.typ)
                       /\ pc' = "search_returned" /\ exc' = exc
                    \/ \* the call raises: always so when no mailbox is
                       \* selected (SEARCH is illegal in state AUTH)
                       /\ ops' = Append(ops, Op("search", q, "raise", None))
                       /\ Raise(Exc("IMAP4.error", "command failed"))
                       /\ UNCHANGED <<log, email_ids>>

\* main without the test of line 44
MainCheckSearch_NoEmptyTest ==
    /\ pc = "search_returned"
    /\ log' = log
    /\ pc' = "fetch"
    /\ idx' = 1
    /\ attachments_info' = <<>>
    /\ UNCHANGED <<imap_session, ops, start_date, end_date, file_extension,
                   email_ids, exc, text, decoded>>

\* main, lines 43-49, and line 116
MainCheckSearch ==
    /\ pc = "search_returned"
    /\ IF email_ids = <<>>
       THEN /\ log' = log \o
                  <<Info("No emails found in the specified date range.")>>
            /\ pc' = "finally"
            /\ UNCHANGED <<idx, attachments_info>>
       ELSE /\ log' = log
            /\ pc' = "fetch"
            /\ idx' = 1
            /\ attachments_info' = <<>>
    /\ UNCHANGED <<imap_session, ops, start_date, end_date, file_extension,
                   email_ids, exc, text, decoded>>


----------------------------------------------------------------------------
(* get_attachments_info *)

\* the log records of the inner loop
RECURSIVE scan_log(_, _)
scan_log(parts, ext) ==
    IF parts = <<>> THEN <<>>
    ELSE LET part == Head(parts)
         IN  (IF part.maintype = "multipart" \/ part.disposition = None
              THEN <<>>
              ELSE decode_text_log(AsText(part.filename))
                   \o (IF part_records(part, <<>>, <<>>, ext) # <<>>
                       THEN <<Info("Found attachment")>>
                       ELSE <<>>))
             \o scan_log(Tail(parts), ext)

\* the log records of one fetched message
message_log(msg, ext) ==
    decode_text_log(AsText(msg.subject))
        \o decode_text_log(AsText(msg.from_))
        \o scan_log(walk(msg.root), ext)

\* a retry: the same identifier again
retry_at(i, ids) == i

\* a break: the loop is left
break_at(i, ids) == Len(ids) + 1

\* lines 120-122, "continue": after the identifier at index i, whose fetch
\* failed, the loop goes on with the next one
continue_at(i, ids) == i + 1

\* one iteration of the for loop, lines 117-134
FetchNext ==
    /\ pc = "fetch"
    /\ idx <= Len(email_ids)
    /\ UNCHANGED <<imap_session, start_date, end_date, file_extension,
                   email_ids, text, decoded>>
    /\ LET email_id == email_ids[idx]
           processing == <<Info("Processing email ID")>>
       IN  \/ \* 'OK' with the message (data holds the parsed message)
              \E msg \in Messages :
                 /\ ops' = Append(ops, Op("fetch", email_id, "OK", <<msg>>))
                 /\ attachments_info' =
                        attachments_info \o message_records(msg, file_extension)
                 /\ log' = log \o processing
                               \o message_log(msg, file_extension)
                 /\ idx' = idx + 1
                 /\ pc' = pc /\ exc' = exc
           \/ \* not 'OK': continue
              /\ ops' = Append(ops, Op("fetch", email_id, "NO", <<>>))
              /\ attachments_info' = attachments_info
              /\ log' = log \o processing \o <<Error("Failed to fetch email ID")>>
              /\ idx' = continue_at(idx, email_ids)
              /\ pc' = pc /\ exc' = exc
           \/ \* the call raises
              /\ ops' = Append(ops, Op("fetch", email_id, "raise", <<>>))
              /\ log' = log \o processing
              /\ Raise(Exc("IMAP4.error", "command failed"))
              /\ UNCHANGED <<attachments_info, idx>>
           \/ \* 'OK' with no message data ([None]): data[0][1] raises
              /\ ops' = Append(ops, Op("fetch", email_id, "OK", <<>>))
              /\ log' = log \o processing
              /\ Raise(Exc("TypeError", "'NoneType' is not subscriptable"))
              /\ UNCHANGED <<attachments_info, idx>>

\* lines 136-138: the loop is over
ScanReturn ==
    /\ pc = "fetch"
    /\ idx > Len(email_ids)
    /\ log' = log \o <<Info("Completed processing emails.")>>
    /\ pc' = "scan_returned"
    /\ UNCHANGED <<imap_session, ops, start_date, end_date, file_extension,
                   email_ids, idx, attachments_info, exc, text, decoded>>

----------------------------------------------------------------------------
(* main, the rest *)

\* lines 50-57
MainCheckAttachments ==
    /\ pc = "scan_returned"
    /\ log' = log \o
         (IF attachments_info = <<>>
          THEN <<Info("No attachments found matching the specified file extension.")>>
          ELSE [k \in 1..Len(attachments_info) |-> Info("Found attachment:")])
    /\ pc' = "finally"
    /\ UNCHANGED <<imap_session, ops, start_date, end_date, file_extension,
                   email_ids, idx, attachments_info, exc, text, decoded>>

\* lines 59-62: the two except clauses
HandleException ==
    /\ pc = "except"
    /\ log' = log \o
         (IF exc.type = "IMAP4.error"
          THEN <<Error("IMAP error occurred")>>
          ELSE <<Error("An unexpected error occurred")>>)
    /\ pc' = "finally"
    /\ UNCHANGED <<imap_session, ops, start_date, end_date, file_extension,
                   email_ids, idx, attachments_info, exc, text, decoded>>

\* the logout at the end of the try block and not in a finally clause: it
\* is skipped when an exception was handled
Finally_NotAfterException ==
    /\ pc = "finally"
    /\ UNCHANGED <<imap_session, log, start_date, end_date, file_extension,
                   email_ids, idx, attachments_info, text, decoded>>
    /\ IF imap_session # None /\ exc = NoExc
       THEN \/ /\ ops' = Append(ops, Op("logout", None, "BYE", None))
               /\ pc' = "returned" /\ exc' = exc
            \/ /\ ops' = Append(ops, Op("logout", None, "raise", None))
               /\ pc' = "raised"
               /\ exc' = Exc("IMAP4.error", "logout failed")
       ELSE /\ ops' = ops
            /\ pc' = "returned" /\ exc' = exc

\* lines 63-65 with close_imap_session; logout's exception leaves main
Finally ==
    /\ pc = "finally"
    /\ UNCHANGED <<imap_session, log, start_date, end_date, file_extension,
                   email_ids, idx, attachments_info, text, decoded>>
    /\ IF imap_session # None
       THEN \/ /\ ops' = Append(ops, Op("logout", None, "BYE", None))
               /\ pc' = "returned" /\ exc' = exc
            \/ /\ ops' = Append(ops, Op("logout", None, "raise", None))
               /\ pc' = "raised"
               /\ exc' = Exc("IMAP4.error", "logout failed")
       ELSE /\ ops' = ops
            /\ pc' = "returned" /\ exc' = exc

----------------------------------------------------------------------------
(* decode_text called on its own *)

\* bound on the length of decode_text's argument
MaxTextLen == 3

\* byte values: "A", "=", "?", a two-byte lead (0xC3), a continuation byte
\* (0xA9), a byte that is never valid (0xFF)
ByteValues == {65, 61, 63, 195, 169, 255}

\* code points of str arguments
CodePoints == {65, 233}

SeqsUpTo(S, n) == UNION {[1..k -> S] : k \in 0..n}

TextArguments ==
    {[kind |-> "none"]}
    \cup {[kind |-> "str", val |-> v] : v \in SeqsUpTo(CodePoints, MaxTextLen)}
    \cup {[kind |-> "bytes", val |-> v] : v \in SeqsUpTo(ByteValues, MaxTextLen)}

DecodeText ==
    /\ pc = "decode"
    /\ decoded' = decode_text(text)
    /\ log' = log \o decode_text_log(text)
    /\ pc' = "decoded"
    /\ UNCHANGED <<imap_session, ops, start_date, end_date, file_extension,
                   email_ids, idx, attachments_info, exc, text>>

----------------------------------------------------------------------------
(* Specifications *)

\* a run of main
Init ==
    /\ pc = "start"
    /\ imap_session = None
    /\ ops = <<>>
    /\ log = <<>>
    /\ start_date \in ConfigDates
    /\ end_date \in ConfigDates
    /\ file_extension \in Extensions
    /\ email_ids = <<>>
    /\ idx = 0
    /\ attachments_info = <<>>
    /\ exc = NoExc
    /\ text = NoText
    /\ decoded = NoResult

Next ==
    \/ Connect
    \/ MainCheckSession
    \/ ListMailboxes
    \/ SearchValidate
    \/ SearchSelect
    \/ SearchQuery
    \/ MainCheckSearch
    \/ FetchNext
    \/ ScanReturn
    \/ MainCheckAttachments
    \/ HandleException
    \/ Finally

Spec == Init /\ [][Next]_vars

\* a call of search_emails on an established session
InitSearch ==
    /\ pc = "search_validate"
    /\ imap_session = Session
    /\ ops = <<>>
    /\ log = <<>>
    /\ start_date \in DateStrings
    /\ end_date \in DateStrings
    /\ file_extension = PdfExt
    /\ email_ids = <<>>
    /\ idx = 0
    /\ attachments_info = <<>>
    /\ exc = NoExc
    /\ text = NoText
    /\ decoded = NoResult

NextSearch == SearchValidate \/ SearchSelect \/ SearchQuery

SpecSearch == InitSearch /\ [][NextSearch]_vars

\* a call of get_attachments_info on an established session
InitScan ==
    /\ pc = "fetch"
    /\ imap_session = Session
    /\ ops = <<>>
    /\ log = <<>>
    /\ start_date = START_DATE
    /\ end_date = END_DATE
    /\ file_extension \in Extensions
    /\ email_ids \in IdLists(MaxScanIds)
    /\ idx = 1
    /\ attachments_info = <<>>
    /\ exc = NoExc
    /\ text = NoText
    /\ decoded = NoResult

NextScan == FetchNext \/ ScanReturn

SpecScan == InitScan /\ [][NextScan]_vars

\* a call of decode_text
InitDecode ==
    /\ pc = "decode"
    /\ imap_session = None
    /\ ops = <<>>
    /\ log = <<>>
    /\ start_date = START_DATE
    /\ end_date = END_DATE
    /\ file_extension = PdfExt
    /\ email_ids = <<>>
    /\ idx = 0
    /\ attachments_info = <<>>
    /\ exc = NoExc
    /\ text \in TextArguments
    /\ decoded = NoResult

NextDecode == DecodeText

SpecDecode == InitDecode /\ [][NextDecode]_vars


----------------------------------------------------------------------------
(* Vocabulary of the properties: the calendar and the IMAP date syntax     *)
(* stated on their own, not through strptime, strftime or ordinals.        *)

Done == pc \in {"returned", "raised"}

OpIndexes(name) == {k \in 1..Len(ops) : ops[k].op = name}

LoggedIn == \E k \in OpIndexes("login") : ops[k].typ = "OK"

Logged(record) == \E k \in 1..Len(log) : log[k] = record

SameLetter(c1, c2) ==
    \/ c1 = c2
    \/ \E k \in 1..26 : {c1, c2} = {UpperLetters[k], LowerLetters[k]}

\* the months a field names, in any letter case
MonthsNamed(f) ==
    {m \in 1..12 : Len(f) = 3 /\ \A k \in 1..3 : SameLetter(f[k], MonthTitle[m][k])}

LeapYear(y) == (y % 4 = 0 /\ y % 100 # 0) \/ y % 400 = 0

MonthLength(y, m) ==
    CASE m \in {4, 6, 9, 11} -> 30
      [] m = 2 -> IF LeapYear(y) THEN 29 ELSE 28
      [] OTHER -> 31

\* the fields that are a day of the month in one or two digits
DayFields ==
    {<<d>> : d \in 1..9}
        \cup {<<a, b>> : <<a, b>> \in {x \in (0..3) \X (0..9) :
                                        10 * x[1] + x[2] \in 1..31}}

DayOfField(f) == IF Len(f) = 1 THEN f[1] ELSE 10 * f[1] + f[2]
YearOfField(f) == 1000 * f[1] + 100 * f[2] + 10 * f[3] + f[4]

\* the string is day-Mon-year and names a day of the calendar
IsDate(s) ==
    /\ s.d \in DayFields
    /\ MonthsNamed(s.b) # {}
    /\ Len(s.y) = 4 /\ \A k \in 1..4 : s.y[k] \in 0..9
    /\ YearOfField(s.y) >= 1
    /\ DayOfField(s.d) <= MonthLength(YearOfField(s.y),
                                      CHOOSE m \in MonthsNamed(s.b) : TRUE)

\* a day as <<year, month, day>>
DayOf(s) ==
    <<YearOfField(s.y), CHOOSE m \in MonthsNamed(s.b) : TRUE, DayOfField(s.d)>>

DayKey(day) == day[1] * 10000 + day[2] * 100 + day[3]

LastDay == <<9999, 12, 31>>

\* the calendar day after a day
DayAfter(day) ==
    IF day[3] < MonthLength(day[1], day[2]) THEN <<day[1], day[2], day[3] + 1>>
    ELSE IF day[2] < 12 THEN <<day[1], day[2] + 1, 1>>
    ELSE <<day[1] + 1, 1, 1>>

ValidRange ==
    /\ IsDate(start_date) /\ IsDate(end_date)
    /\ DayKey(DayOf(start_date)) < DayKey(DayOf(end_date))

OrderMessage == "start_date must be before end_date"

\* the day an IMAP date (day "-" Mon "-" four-digit year) of a search
\* criterion denotes, <<0, 0, 0>> if it is none
ImapDay(s) ==
    IF /\ s.d \in DayFields
       /\ \E m \in 1..12 : MonthTitle[m] = s.b
       /\ Len(s.y) = 4 /\ \A k \in 1..4 : s.y[k] \in 0..9
    THEN <<YearOfField(s.y), CHOOSE m \in 1..12 : MonthTitle[m] = s.b,
           DayOfField(s.d)>>
    ELSE <<0, 0, 0>>

\* a message dated day matches (SINCE q.since BEFORE q.before)
InQueriedRange(day, q) ==
    /\ DayKey(ImapDay(q.since)) <= DayKey(day)
    /\ DayKey(day) < DayKey(ImapDay(q.before))

----------------------------------------------------------------------------
(* C1: in every run of main, whichever step failed, a logout is attempted  *)
(* in the cleanup phase before main ends if connect_to_imap_server         *)
(* returned a session (the login answered 'OK'), and none is attempted if  *)
(* no session was established.                                             *)

C1_LogoutIffSession ==
    /\ \A k \in OpIndexes("logout") : Done /\ LoggedIn
    /\ Done => IF LoggedIn
               THEN Cardinality(OpIndexes("logout")) = 1
               ELSE OpIndexes("logout") = {}

\* a run in which a step failed with an exception after the session was
\* established, and that ended with the logout
C1_Witness ==
    /\ pc = "returned" /\ LoggedIn
    /\ exc # NoExc
    /\ ops[Len(ops)].op = "logout"

----------------------------------------------------------------------------
(* C3: validate_date_range succeeds for every pair of dates with start     *)
(* strictly before end, fails with the invalid-range error for every pair  *)
(* of dates with start equal to or after end, and fails with a parse error *)
(* whenever a string is not a date in the day-Mon-year format.             *)

\* in a call of search_emails: the validation raised (nothing was sent)
ValidationRaised == pc = "except" /\ ops = <<>>

\* C3: validation succeeds exactly for two dates with start before end,
\* raises the invalid-range error for two dates with start not before end,
\* and a parse error when a string is no date in the format
C3_ValidateDateRange ==
    pc # "search_validate" =>
        IF IsDate(start_date) /\ IsDate(end_date)
        THEN IF DayKey(DayOf(start_date)) < DayKey(DayOf(end_date))
             THEN ~ValidationRaised
             ELSE ValidationRaised /\ exc = Exc("ValueError", OrderMessage)
        ELSE /\ ValidationRaised
             /\ exc.type = "ValueError" /\ exc.msg # OrderMessage

\* equal dates are refused
C3_Witness ==
    /\ ValidationRaised
    /\ IsDate(start_date) /\ IsDate(end_date)
    /\ DayOf(start_date) = DayOf(end_date)
    /\ exc = Exc("ValueError", OrderMessage)

----------------------------------------------------------------------------
(* C4: when the date range is invalid, a run of main makes neither a       *)
(* select nor a search call on the session, and search_emails ends with    *)
(* the exception, which aborts the run: nothing is returned as an empty    *)
(* result.                                                                 *)

C4_ValidationBeforeNetwork ==
    ~ValidRange =>
        /\ OpIndexes("select") = {} /\ OpIndexes("search") = {}
        /\ OpIndexes("fetch") = {}
        /\ pc \notin {"search_select", "search_query", "search_returned",
                      "fetch", "scan_returned"}
        /\ ~Logged(Info("No emails found in the specified date range."))
        /\ (Done /\ (\E k \in OpIndexes("list") : ops[k].typ # "raise")
                 /\ exc.type # "IndexError") =>
               /\ Logged(Error("An unexpected error occurred"))
               /\ pc = "returned" => exc.type = "ValueError"

\* a run that the validation aborted, after the folder list, and that
\* logged out
C4_Witness ==
    /\ pc = "returned" /\ ~ValidRange
    /\ exc.type = "ValueError"
    /\ OpIndexes("list") # {} /\ OpIndexes("logout") # {}


----------------------------------------------------------------------------
(* C5: for every valid date range, the query search_emails issues has the  *)
(* start date as its inclusive lower bound and the end date plus one       *)
(* calendar day, never the end date itself, as its exclusive upper bound:  *)
(* a message dated on end_date is in the queried range and one dated the   *)
(* day after is not, also at the end of a month or of a year.              *)

\* the bounds of a query are those of the range
RightBounds(q) ==
    /\ ImapDay(q.since) = DayOf(start_date)
    /\ ImapDay(q.before) = DayAfter(DayOf(end_date))
    /\ ImapDay(q.before) # DayOf(end_date)
    /\ InQueriedRange(DayOf(end_date), q)
    /\ InQueriedRange(DayOf(start_date), q)
    /\ ~InQueriedRange(DayAfter(DayOf(end_date)), q)

\* search_emails is past line 46 with a mailbox selected
PastSearchCall ==
    /\ pc \in {"search_returned", "except"}
    /\ \E k \in OpIndexes("select") : ops[k].typ # "raise"

\* C5 as stated: every valid range gets a query with start as lower bound
\* and the day after end as upper bound
C5_EveryValidRangeQueried ==
    (ValidRange /\ PastSearchCall) =>
        \E k \in OpIndexes("search") : RightBounds(ops[k].arg)

\* C5 as amended: every query that is issued has start as lower bound and
\* the day after end as upper bound; every valid range that does not end on
\* 31-Dec-9999 gets its query; one that does ends in OverflowError, no query
C5_UpperBoundIsDayAfterEnd ==
    /\ \A k \in OpIndexes("search") : RightBounds(ops[k].arg)
    /\ (ValidRange /\ PastSearchCall /\ DayOf(end_date) # LastDay) =>
           OpIndexes("search") # {}
    /\ (ValidRange /\ PastSearchCall /\ DayOf(end_date) = LastDay) =>
           /\ OpIndexes("search") = {}
           /\ pc = "except" /\ exc.type = "OverflowError"

\* a query for a range that ends on the last day of a year
C5_Witness ==
    /\ pc = "search_returned"
    /\ DayOf(end_date) = <<2023, 12, 31>>
    /\ \E k \in OpIndexes("search") :
          /\ ops[k].typ = "OK"
          /\ ImapDay(ops[k].arg.before) = <<2024, 1, 1>>

----------------------------------------------------------------------------
(* C6: connect_to_imap_server never lets an exception escape to its        *)
(* caller: whatever the outcome of opening the connection and of the       *)
(* login, it returns a session or None.                                    *)

\* an exception is in flight in main and connect_to_imap_server is all that
\* ran
ConnectRaised == pc = "except" /\ \A k \in 1..Len(ops) : ops[k].op = "login"

\* C6: no exception leaves connect_to_imap_server
C6_ConnectNeverRaises == ~ConnectRaised

----------------------------------------------------------------------------
(* C7: when the search response is not 'OK', search_emails returns an      *)
(* empty sequence and does not fail, and main treats it as a search with   *)
(* no result: it logs that no emails were found, fetches nothing and logs  *)
(* out.                                                                    *)

SearchRefused == \E k \in OpIndexes("search") : ops[k].typ = "NO"

\* C7: a refused search is an empty result: 'No emails found' is logged,
\* nothing is fetched, no exception is raised, the run ends with the logout
C7_RefusedSearchIsEmptyResult ==
    SearchRefused =>
        /\ email_ids = <<>>
        /\ pc \in {"search_returned", "finally", "returned", "raised"}
        /\ OpIndexes("fetch") = {}
        /\ pc # "search_returned" =>
               Logged(Info("No emails found in the specified date range."))
        /\ ~Logged(Error("An unexpected error occurred"))
        /\ ~Logged(Error("IMAP error occurred"))
        /\ Done => ops[Len(ops)].op = "logout"
        /\ pc = "returned" => exc = NoExc

\* a run whose search was refused and that ended with the logout
C7_Witness ==
    /\ SearchRefused
    /\ pc = "returned"
    /\ ops[Len(ops)].op = "logout" /\ ops[Len(ops)].typ = "BYE"


----------------------------------------------------------------------------
(* Vocabulary of the scan's properties *)

HasSuffix(s, suffix) == \E k \in 0..Len(s) : s = SubSeq(s, 1, k) \o suffix

\* the part is a named attachment of the wanted type
Matching(part, ext) ==
    /\ part.maintype # "multipart"
    /\ part.disposition # None
    /\ part.filename # None
    /\ HasSuffix(part.filename, ext)

MatchingParts(msg, ext) ==
    SelectSeq(walk(msg.root), LAMBDA part : Matching(part, ext))

HeaderText(v) == IF v = None THEN <<>> ELSE v

Fetched(k) == ops[k].op = "fetch" /\ ops[k].typ = "OK" /\ ops[k].data # <<>>

\* get_attachments_info is in its loop or has returned
Scanning == pc \in {"fetch", "scan_returned"}

RECURSIVE MatchCount(_)
MatchCount(n) ==
    IF n = 0 THEN 0
    ELSE MatchCount(n - 1)
         + (IF Fetched(n) THEN Len(MatchingParts(ops[n].data[1], file_extension))
            ELSE 0)

RECURSIVE ExpectedRecords(_)
ExpectedRecords(n) ==
    IF n = 0 THEN <<>>
    ELSE ExpectedRecords(n - 1) \o
         (IF Fetched(n)
          THEN LET msg == ops[n].data[1]
                   parts == MatchingParts(msg, file_extension)
               IN  [j \in 1..Len(parts) |->
                       <<HeaderText(msg.subject), HeaderText(msg.from_),
                         parts[j].filename>>]
          ELSE <<>>)

----------------------------------------------------------------------------
(* C2: in get_attachments_info a fetch that fails (a response that is not  *)
(* 'OK') does not abort the batch: every identifier is fetched, in order,  *)
(* the matching attachments of every message that was fetched are in the   *)
(* result, and a failed fetch stores no record.                            *)

C2_FetchFailureIsolated ==
    Scanning =>
        /\ Len(ops) = idx - 1
        /\ \A k \in 1..Len(ops) :
              /\ ops[k].op = "fetch" /\ ops[k].arg = email_ids[k]
              /\ ops[k].typ \in {"OK", "NO"}
        /\ pc = "scan_returned" => Len(ops) = Len(email_ids)
        /\ \A k \in 1..Len(ops) :
              Fetched(k) =>
                  LET parts == MatchingParts(ops[k].data[1], file_extension)
                  IN  \A j \in 1..Len(parts) :
                         \E r \in 1..Len(attachments_info) :
                            attachments_info[r][3] = parts[j].filename
        /\ Len(attachments_info) = MatchCount(Len(ops))

\* three identifiers, the second fetch fails, the two others are in the
\* result
C2_Witness ==
    /\ pc = "scan_returned" /\ Len(email_ids) = 3
    /\ file_extension = PdfExt
    /\ Fetched(1) /\ ops[1].data[1] = MsgInvoice
    /\ ops[2].typ = "NO"
    /\ Fetched(3) /\ ops[3].data[1] = MsgNested
    /\ Len(attachments_info) = 3

----------------------------------------------------------------------------
(* C8: the list get_attachments_info builds is exactly, in identifier      *)
(* order and then walk order, one (subject, sender, filename) record for   *)
(* each part of each fetched message that is no multipart container, has a *)
(* Content-Disposition and a filename ending (case-sensitively) with the   *)
(* extension; so at every point of the loop it is the list of the messages *)
(* fetched so far (records are appended, none removed, changed or merged), *)
(* and a message with the single attachment "i.pdf" gives one record under *)
(* ".pdf" and none under ".docx".                                          *)

C8_ExactRecords ==
    Scanning =>
        /\ attachments_info = ExpectedRecords(Len(ops))
        /\ (Len(ops) = 1 /\ Fetched(1) /\ ops[1].data[1] = MsgInvoice) =>
               attachments_info =
                   IF file_extension = PdfExt
                   THEN << <<MsgInvoice.subject, MsgInvoice.from_, InvoicePdf>> >>
                   ELSE <<>>

\* two messages, one with a matching attachment and one without
C8_Witness ==
    /\ pc = "scan_returned" /\ file_extension = PdfExt
    /\ Len(ops) = 2
    /\ Fetched(1) /\ ops[1].data[1] = MsgPlain
    /\ Fetched(2) /\ ops[2].data[1] = MsgInvoice
    /\ attachments_info = << << <<"S","1">>, <<"a","@","x">>, InvoicePdf >> >>

----------------------------------------------------------------------------
(* C9: decode_text never raises and returns a string: "" for None, the     *)
(* string itself for a string, and for bytes (whose encoded-word decoding  *)
(* fails) the decoding of the bytes as UTF-8 with U+FFFD in the place of   *)
(* what cannot be decoded.                                                 *)

\* UTF-8 of code points below U+0800
RECURSIVE Utf8Encode(_)
Utf8Encode(cps) ==
    IF cps = <<>> THEN <<>>
    ELSE (IF cps[1] < 128 THEN <<cps[1]>>
          ELSE <<192 + (cps[1] \div 64), 128 + (cps[1] % 64)>>)
         \o Utf8Encode(Tail(cps))

IsCodePoints(v) ==
    /\ DOMAIN v = 1..Len(v)
    /\ \A k \in 1..Len(v) : v[k] \in 0..1114111

Ascii(v) == SelectSeq(v, LAMBDA x : x < 128)

HasReplacement(v) == \E k \in 1..Len(v) : v[k] = 65533

\* C9: decode_text returns, and returns a string: "" for None, the argument
\* for a string, the UTF-8 decoding with replacement characters for bytes
C9_DecodeTextTotal ==
    pc = "decoded" =>
        /\ decoded.kind = "return"
        /\ IsCodePoints(decoded.val)
        /\ text.kind = "none" => decoded.val = <<>>
        /\ text.kind = "str" => decoded.val = text.val
        /\ text.kind = "bytes" =>
               /\ Ascii(decoded.val) = Ascii(text.val)
               /\ Len(decoded.val) <= Len(text.val)
               /\ IF HasReplacement(decoded.val)
                  THEN \E k \in 1..Len(text.val) : text.val[k] >= 128
                  ELSE Utf8Encode(decoded.val) = text.val

\* bytes that are no UTF-8 come back with U+FFFD
C9_Witness ==
    /\ pc = "decoded" /\ text.kind = "bytes"
    /\ text.val = <<65, 255, 195>>
    /\ decoded = [kind |-> "return", val |-> <<65, 65533, 65533>>]

----------------------------------------------------------------------------
(* C10: in every run of main the calls on the session come in the order    *)
(* login, list, select, search, fetches, logout; nothing follows a login   *)
(* that did not succeed; fetches are made only for a search that returned  *)
(* identifiers, one for each identifier at most, in the search's order; a  *)
(* folder list that is refused does not stop the search; the logout is     *)
(* made once at most and is the last call.                                 *)

Rank(op) ==
    CASE op = "login" -> 1
      [] op = "list" -> 2
      [] op = "select" -> 3
      [] op = "search" -> 4
      [] op = "fetch" -> 5
      [] op = "logout" -> 6

\* C10: the calls on the session are ordered login, list, select, search,
\* fetches, logout; fetches follow the identifiers of a successful search,
\* once each; a refused list does not stop the search; logout is last
C10_CallOrder ==
    /\ \A j, k \in 1..Len(ops) :
          j < k => /\ Rank(ops[j].op) <= Rank(ops[k].op)
                   /\ Rank(ops[j].op) = Rank(ops[k].op) => ops[j].op = "fetch"
    /\ ops # <<>> => ops[1].op = "login"
    /\ Len(ops) > 1 => ops[1].typ = "OK"
    /\ \A k \in OpIndexes("fetch") :
          \E s \in OpIndexes("search") :
             /\ ops[s].typ = "OK"
             /\ k - s \in 1..Len(ops[s].data)
             /\ ops[k].arg = ops[s].data[k - s]
    /\ \A k \in OpIndexes("list") :
          (ops[k].typ = "NO" /\ Done /\ ValidRange) =>
              /\ OpIndexes("select") # {}
              /\ (\A j \in OpIndexes("select") : ops[j].typ # "raise")
                     /\ DayOf(end_date) # LastDay
                 => OpIndexes("search") # {}
    /\ \A k \in OpIndexes("logout") : k = Len(ops)

\* a run with a refused folder list, a search with two identifiers, both
\* fetched in the search's order, and the logout
C10_Witness ==
    /\ pc = "returned"
    /\ Len(ops) = 7
    /\ ops[2].op = "list" /\ ops[2].typ = "NO"
    /\ ops[4].op = "search" /\ ops[4].data = <<2, 1>>
    /\ ops[5].op = "fetch" /\ ops[5].arg = 2 /\ ops[5].typ = "NO"
    /\ ops[6].op = "fetch" /\ ops[6].arg = 1
    /\ ops[7].op = "logout"

=============================================================================
